---- MODULE Spec2Model ----
(***************************************************************************)
(* A model of shapash's SmartPredictor                                     *)
(* (src/shapash/explainer/smart_predictor.py): the data bundle self.data,  *)
(* the call order of add_input / predict / compute_contributions /         *)
(* detail_contributions / summarize / filter / modify_mask, and the mask   *)
(* pipeline of filter.                                                     *)
(*                                                                         *)
(* Conventions.  A Python value that may be None (or an attribute / dict   *)
(* key that may be absent) is the empty tuple None or the one-element      *)
(* tuple Some(v).  A table (pandas.DataFrame) is a record                  *)
(*   [index : row keys, columns : column names, vals : rows of cells].     *)
(* Contributions are integers (tenths), so 0.3 of the spec is 3.           *)
(* Every operation returns its outcome in the variable last: the exception *)
(* it raised (exc, msg), the collaborators it invoked, its return value.   *)
(***************************************************************************)
EXTENDS Integers, Sequences, FiniteSets, TLC

\* ---------------------------------------------------------------- bounds
\* thresholds given to modify_mask range over 1..MaxThreshold
MaxThreshold == 2
\* max_contrib given to modify_mask ranges over 1..MaxContrib
MaxContrib == 2
\* the contributions given to the ranker range over -MaxRank..MaxRank
MaxRank == 1

\* ------------------------------------------------------------- optionals
None == <<>>
Some(v) == <<v>>
IsNone(o) == o = <<>>
Val(o) == o[1]

\* ---------------------------------------------------------------- tables
Abs(n) == IF n < 0 THEN -n ELSE n

\* of: the name of the dataset x a table was computed from or checked against;
\* by: who produced it ("user", "model", "explainer", "preprocessing").
Table(index, columns, vals, of, by) == [index |-> index, columns |-> columns, vals |-> vals, of |-> of, by |-> by]

NRows(t) == Len(t.index)

NCols(t) == Len(t.columns)

SeqToSet(s) == {s[i] : i \in 1..Len(s)}

\* position of element e in sequence s (0 when absent), list.index
IndexOf(s, e) == IF e \in SeqToSet(s) THEN CHOOSE i \in 1..Len(s) : s[i] = e /\ \A j \in 1..(i-1) : s[j] # e ELSE 0

Neg(t) == [t EXCEPT !.vals = [i \in 1..NRows(t) |-> [j \in 1..NCols(t) |-> -t.vals[i][j]]]]

RECURSIVE SumSeq(_)
SumSeq(s) == IF s = <<>> THEN 0 ELSE s[1] + SumSeq(Tail(s))

\* an operation's outcome: the exception raised ("None" when it returned)
Raise(exc, msg) == [exc |-> exc, msg |-> msg]

Ok == Raise("None", "")

\* the message of the call-order guards (lines 417, 557, 620)
MsgOrder == "add_input must be called first"

\* what an operation without the guard raises when it reads self.data
NoDataErrorUnguarded == Raise("AttributeError", "'SmartPredictor' object has no attribute 'data'")

\* the guards "if not hasattr(self, 'data'): raise ValueError(...)"
NoDataError == Raise("ValueError", MsgOrder)

\* --------------------------------------------------- constructor arguments
\* the columns_dict arguments (ordinal position -> technical feature
\* name): keys 0 and 1
ColumnsAgeSex == (0 :> "Age") @@ (1 :> "Sex")

\* keys that leave out 1
ColumnsGap == (0 :> "Age") @@ (2 :> "Sex")

\* contiguous keys from 1, Sex before Age
ColumnsFromOne == (1 :> "Sex") @@ (2 :> "Age")

ColumnsDicts == {ColumnsAgeSex, ColumnsGap, ColumnsFromOne}

\* features_types: technical feature name -> declared type
features_types == [Age |-> "int64", Sex |-> "int64"]

\* features_dict: technical feature name -> domain name
features_dict == [Age |-> "Age of passenger", Sex |-> "Sex of passenger"]

\* the declared classes of a classification model (check_model)
Classes == <<0, 1>>

\* the preprocessing used when one is configured: a one-hot encoding of Sex.
\* Maps every original feature to the encoded columns it expands into.
OneHot == [Age |-> <<"Age">>, Sex |-> <<"Sex_0", "Sex_1">>]

\* ------------------------------------------------------------- the inputs
Frame(name, index, columns, dtypes, vals) == [kind |-> "DataFrame", name |-> name, index |-> index, columns |-> columns, dtypes |-> dtypes, vals |-> vals]

Int64s(columns) == [c \in SeqToSet(columns) |-> "int64"]

\* three observations over [Age, Sex]
XA == Frame("XA", <<0, 1, 2>>, <<"Age", "Sex">>, Int64s(<<"Age", "Sex">>), <<<<4, 0>>, <<3, 1>>, <<0, 1>>>>)

\* columns supplied in another order than columns_dict
XB == Frame("XB", <<0, 1>>, <<"Sex", "Age">>, Int64s(<<"Age", "Sex">>), <<<<1, 2>>, <<0, 0>>>>)

\* Age holds strings: its runtime type differs from features_types
XT == Frame("XT", <<0, 1>>, <<"Age", "Sex">>, [Age |-> "object", Sex |-> "int64"], <<<<1, 1>>, <<3, 0>>>>)

\* a category of Sex (2) the one-hot encoder was not fitted on
XC == Frame("XC", <<0, 1>>, <<"Age", "Sex">>, Int64s(<<"Age", "Sex">>), <<<<2, 2>>, <<1, 0>>>>)

\* a column that columns_dict does not name
XU == Frame("XU", <<0, 1>>, <<"Age", "Sex", "Fare">>, Int64s(<<"Age", "Sex", "Fare">>), <<<<1, 1, 7>>, <<3, 0, 9>>>>)

\* neither a DataFrame nor a dict (a list)
XO == [Frame("XO", <<>>, <<>>, Int64s(<<>>), <<>>) EXCEPT !.kind = "list"]

\* the datasets given to add_input in the bundle specification
Datasets == {XA, XT, XC, XU, XO}

\* a user-specified prediction (one column, class labels 0/1 or a target)
\* for the two-row datasets
YB == Table(<<0, 1>>, <<"ypred">>, <<<<0>>, <<1>>>>, "", "user")

Ypreds == {YB}

\* user-specified contributions: kind "single" (one DataFrame or numpy
\* array) or "list" (one per class); an array is a table without labels
Contrib(kind, items) == [kind |-> kind, items |-> items]

TB == Table(<<0, 1>>, <<"Age", "Sex">>, <<<<1, -2>>, <<0, 2>>>>, "", "user")

CB == Contrib("single", <<TB>>)

Contribs == {CB}

\* TB in the per-class form: the opposite table for class 0, TB for class 1
CL == Contrib("list", <<Neg(TB), TB>>)

\* one table more than the model has classes
CL3 == Contrib("list", <<Neg(TB), TB, TB>>)

\* the representations of contributions: single, per class, too long
ContribForms == {CB, CL, CL3}

\* the contributions given to the ranker: every pair of values for the
\* first row, the same pair in the other order for the second row
RankContribs == {Contrib("single", <<Table(<<0, 1>>, <<"Age", "Sex">>, <<<<a, b>>, <<b, a>>>>, "", "user")>>) : a \in -MaxRank..MaxRank, b \in -MaxRank..MaxRank}

VARIABLES
  case,                  \* self._case: "regression" | "classification"
  preprocessing,         \* self.preprocessing: None | Some(OneHot)
  columns_dict,          \* self.columns_dict
  mask_params,           \* self.mask_params
  peer_mask_params,      \* mask_params of a second SmartPredictor, constructed
                         \* like this one without the mask_params argument
  data,                  \* self.data: None while the attribute does not exist
  state,                 \* self.state: None | Some("SmartState" | "MultiDecorator")
  summary,               \* self.summary: None while the attribute does not exist
  mask,                  \* self.mask: None while the attribute does not exist
  masked_contributions,  \* self.masked_contributions
  last                   \* the outcome of the last operation

vars == <<case, preprocessing, columns_dict, mask_params, peer_mask_params, data, state, summary, mask, masked_contributions, last>>

\* ------------------------------------------------- the dataset validation
IsArray(t) == t.index = <<>> /\ t.columns = <<>>

\* pandas x[features_order]: the columns of x in the given order
SelectColumns(x, order) == [x EXCEPT !.columns = order, !.vals = [i \in 1..Len(x.vals) |-> [j \in 1..Len(order) |-> x.vals[i][IndexOf(x.columns, order[j])]]]]

\* convert_dict_dataset: a dict becomes a DataFrame cast to features_types;
\* any failure inside is re-raised as ValueError
convert_dict_dataset(x) ==
  IF x.kind # "dict" THEN [res |-> Ok, x |-> x]
  ELSE IF ~(\A column \in SeqToSet(x.columns) : column \in DOMAIN features_types)
       THEN [res |-> Raise("ValueError", "dict x isn't at the right format"), x |-> x]
  ELSE IF ~(\A feature \in DOMAIN features_types : feature \in SeqToSet(x.columns))
       THEN [res |-> Raise("ValueError", "dict x isn't at the right format"), x |-> x]
  ELSE [res |-> Ok, x |-> [x EXCEPT !.kind = "DataFrame", !.dtypes = [c \in SeqToSet(x.columns) |-> features_types[c]]]]

\* check_dataset_type
check_dataset_type(x) ==
  IF ~(x.kind \in {"DataFrame", "dict"})
  THEN [res |-> Raise("ValueError", "x must be a dict or a pandas.DataFrame"), x |-> x]
  ELSE convert_dict_dataset(x)

\* line 279: not (<generator expression>).  A generator object is truthy
\* whatever it would yield, so the condition of the if is never true and
\* the comparison of str(dtype) with features_types is never evaluated.
TypesRejected(x) == ~TRUE

\* line 271: the same construction on the keys of columns_dict
KeysRejected == ~TRUE

\* a features order that walks the keys of columns_dict in ascending order
\* where the code walks range(min, max + 1)
FeaturesOrderSortedKeys ==
  LET keys == DOMAIN columns_dict
  IN Some([i \in 1..Cardinality(keys) |-> columns_dict[CHOOSE k \in keys : Cardinality({m \in keys : m < k}) = i - 1]])

\* lines 273-275: columns_dict[order] for order in min..max of the keys
FeaturesOrder ==
  LET keys == DOMAIN columns_dict
      lo == CHOOSE k \in keys : \A m \in keys : k <= m
      hi == CHOOSE k \in keys : \A m \in keys : k >= m
  IN IF \A o \in lo..hi : o \in keys THEN Some([i \in 1..(hi - lo + 1) |-> columns_dict[lo + i - 1]]) ELSE None

\* check_dataset_features
check_dataset_features(x) ==
  IF ~(\A column \in SeqToSet(x.columns) : \E k \in DOMAIN columns_dict : columns_dict[k] = column)
  THEN [res |-> Raise("AssertionError", "column not in columns_dict"), x |-> x]
  ELSE IF KeysRejected
  THEN [res |-> Raise("ValueError", "columns_dict must have only integers keys"), x |-> x]
  ELSE IF IsNone(FeaturesOrder)
  THEN [res |-> Raise("KeyError", "columns_dict"), x |-> x]
  ELSE IF ~(SeqToSet(Val(FeaturesOrder)) \subseteq SeqToSet(x.columns))
  THEN [res |-> Raise("KeyError", "not in index"), x |-> x]
  ELSE LET y == SelectColumns(x, Val(FeaturesOrder)) IN
       IF ~(\A column \in SeqToSet(y.columns) : column \in DOMAIN features_types)
       THEN [res |-> Raise("AssertionError", "column not in features_types"), x |-> x]
       ELSE IF TypesRejected(y)
       THEN [res |-> Raise("ValueError", "Types of features in x doesn't match"), x |-> x]
       ELSE [res |-> Ok, x |-> y]

\* clean_data
\* clean_data that keeps the prediction stored before
clean_data_keeps_ypred(x) == [x |-> Some(x), ypred |-> IF IsNone(data) THEN None ELSE Val(data).ypred, contributions |-> None, x_preprocessed |-> None, summary |-> None, var_dict |-> None, contrib_sorted |-> None]

\* clean_data: the dict of data stored.  The keys "summary", "var_dict" and
\* "contrib_sorted" are not in the new dict: None stands for an absent key.
clean_data(x) == [x |-> Some(x), ypred |-> None, contributions |-> None, x_preprocessed |-> None, summary |-> None, var_dict |-> None, contrib_sorted |-> None]

\* ------------------------------------------- the external collaborators
\* the encoded columns a preprocessing produces for the given columns
RECURSIVE EncodedColumns(_, _)
EncodedColumns(pre, columns) == IF columns = <<>> THEN <<>> ELSE pre[columns[1]] \o EncodedColumns(pre, Tail(columns))

\* the original feature an encoded column belongs to
OriginalOf(pre, enc) == CHOOSE f \in DOMAIN pre : enc \in SeqToSet(pre[f])

\* the category a one-hot column stands for
OneHotCategory == [Sex_0 |-> 0, Sex_1 |-> 1]

\* the value of an encoded column for a row of x
EncodedCell(pre, x, i, enc) ==
  LET f == OriginalOf(pre, enc)
      v == x.vals[i][IndexOf(x.columns, f)]
  IN IF enc = f THEN v ELSE IF v = OneHotCategory[enc] THEN 1 ELSE 0

\* the transform fails on a category it was not fitted on
TransformFails(pre, x) ==
  \E i \in 1..Len(x.vals) : \E j \in 1..Len(x.columns) :
    Len(pre[x.columns[j]]) > 1 /\ ~(\E enc \in SeqToSet(pre[x.columns[j]]) : OneHotCategory[enc] = x.vals[i][j])

\* shapash.utils.transform.apply_preprocessing: the identity without a
\* preprocessing, else the transform of x; None when the transform raises
apply_preprocessing(x, pre) ==
  IF IsNone(pre) THEN Some(Table(x.index, x.columns, x.vals, x.name, "preprocessing"))
  ELSE IF TransformFails(Val(pre), x) THEN None
  ELSE LET cols == EncodedColumns(Val(pre), x.columns) IN
       Some(Table(x.index, cols, [i \in 1..Len(x.vals) |-> [j \in 1..Len(cols) |-> EncodedCell(Val(pre), x, i, cols[j])]], x.name, "preprocessing"))

\* the model's decision for one preprocessed row
ModelOutput(c, row) == IF c = "classification" THEN Classes[(SumSeq(row) % Len(Classes)) + 1] ELSE SumSeq(row)

\* model.predict(x_preprocessed) as a one-column table (lines 628-631)
ModelPredict(c, xp) == Table(xp.index, <<"ypred">>, [i \in 1..NRows(xp) |-> <<ModelOutput(c, xp.vals[i])>>], xp.of, "model")

\* shapash.utils.model.predict_proba: one probability (percent) per class
ModelProba(xp) == [i \in 1..NRows(xp) |-> [k \in 1..Len(Classes) |-> IF Classes[k] = ModelOutput("classification", xp.vals[i]) THEN 70 ELSE 30]]

\* the explainer's contribution table for x_preprocessed
ShapTable(xp) == Table(xp.index, xp.columns, [i \in 1..NRows(xp) |-> [j \in 1..NCols(xp) |-> xp.vals[i][j] - 1]], xp.of, "explainer")

\* shapash.utils.shap_backend.shap_contributions: one table (regression)
\* or one table per class (classification)
shap_contributions(c, xp) == IF c = "classification" THEN Contrib("list", <<Neg(ShapTable(xp)), ShapTable(xp)>>) ELSE Contrib("single", <<ShapTable(xp)>>)

\* shapash.utils.check.check_ypred: ypred must have the row keys of x
check_ypred(x, ypred) == IF ypred.index = x.index /\ NCols(ypred) = 1 THEN Some([ypred EXCEPT !.of = x.name]) ELSE None

\* shapash.utils.transform.adapt_contributions
adapt_contributions(c, contributions) ==
  IF c = "classification" /\ contributions.kind = "single"
  THEN Contrib("list", <<Neg(contributions.items[1]), contributions.items[1]>>)
  ELSE contributions

\* shapash.utils.check.check_contribution_object
check_contribution_object(c, contributions) ==
  IF c = "classification" /\ contributions.kind = "list" /\ Len(contributions.items) # Len(Classes)
  THEN Raise("ValueError", "length of list of contributions must be equal to the number of classes")
  ELSE IF c = "regression" /\ contributions.kind = "list"
  THEN Raise("ValueError", "contributions object must be a table in regression")
  ELSE Ok

\* SmartState.validate_contributions on one table: an array takes the
\* labels of x_preprocessed, a DataFrame is returned as it is
ValidateOne(t, xp) == IF IsArray(t) THEN [t EXCEPT !.index = Val(xp).index, !.columns = Val(xp).columns] ELSE t

ValidateFails(t, xp) == IsArray(t) /\ (IsNone(xp) \/ Len(t.vals) # NRows(Val(xp)) \/ \E i \in 1..Len(t.vals) : Len(t.vals[i]) # NCols(Val(xp)))

\* SmartState.inverse_transform_contributions on one table: every original
\* feature gets the sum of the contributions of its encoded columns
InverseOne(t, pre, features) ==
  [t EXCEPT !.columns = features,
            !.vals = [i \in 1..NRows(t) |-> [j \in 1..Len(features) |->
                        SumSeq([k \in 1..Len(pre[features[j]]) |-> t.vals[i][IndexOf(t.columns, pre[features[j]][k])]])]]]

InverseFails(t, pre, features) == \E j \in 1..Len(features) : \E k \in 1..Len(pre[features[j]]) : IndexOf(t.columns, pre[features[j]][k]) = 0

\* SmartState.check_contributions(contributions, x, features_names=False)
CheckOne(t, x) == t.index = x.index /\ NCols(t) = Len(x.columns)

\* shapash.manipulation.select_lines.keep_right_contributions: in
\* classification every row takes the contributions of its predicted class
\* and the probability of that class is joined to ypred
ClassIndex(ypred, i) == IndexOf(Classes, ypred.vals[i][1])

keep_right_y(c, ypred, xp) ==
  IF c = "classification"
  THEN [ypred EXCEPT !.columns = <<"ypred", "proba">>, !.vals = [i \in 1..NRows(ypred) |-> <<ypred.vals[i][1], ModelProba(Val(xp))[i][ClassIndex(ypred, i)]>>]]
  ELSE ypred

keep_right_contrib(c, ypred, contributions, x) ==
  IF c = "classification"
  THEN [contributions.items[1] EXCEPT !.vals = [i \in 1..NRows(ypred) |-> contributions.items[ClassIndex(ypred, i)].vals[i]], !.of = x.name]
  ELSE [contributions.items[1] EXCEPT !.of = x.name]

\* ------------------------------------------------------- the operations
Failed(res) == res.exc # "None"

\* choose_state
choose_state(contributions) == IF contributions.kind = "list" THEN "MultiDecorator" ELSE "SmartState"

\* predict on the bundle d (self.data): the outcome, the bundle after it
\* and the collaborators invoked
predict(d) ==
  IF IsNone(d)
  THEN [res |-> NoDataError, data |-> d, invoked |-> {}]
  ELSE IF IsNone(Val(d).x_preprocessed)
  THEN [res |-> Raise("ValueError", "x must be specified in an add_input method to apply predict"), data |-> d, invoked |-> {}]
  ELSE [res |-> Ok,
        data |-> Some([Val(d) EXCEPT !.ypred = Some(ModelPredict(case, Val(Val(d).x_preprocessed)))]),
        invoked |-> {"model.predict"}]

\* the outcome of compute_contributions when it raises
CCFail(res, d, st, invoked) == [res |-> res, data |-> d, state |-> st, invoked |-> invoked, y_pred |-> None, match |-> None]

\* an adapt_contributions that builds the pair of a single table in the
\* other order
self_adapt_swapped(contributions) ==
  IF case = "classification" /\ contributions.kind = "single"
  THEN Contrib("list", <<contributions.items[1], Neg(contributions.items[1])>>)
  ELSE contributions

\* the method adapt_contributions: the external one on self._case
self_adapt_contributions(contributions) == adapt_contributions(case, contributions)

\* a validate_contributions without check_contribution_object
validate_contributions_unchecked(adapt, xp) ==
  LET range == 1..Len(adapt.items) IN
  IF \E k \in range : ValidateFails(adapt.items[k], xp)
  THEN [res |-> Raise("ValueError", "shape of the array and of x_preprocessed"), contributions |-> adapt]
  ELSE [res |-> Ok, contributions |-> [adapt EXCEPT !.items = [k \in range |-> ValidateOne(adapt.items[k], xp)]]]

\* validate_contributions: check_contribution_object, then the state's
\* validate_contributions against x_preprocessed
validate_contributions(adapt, xp) ==
  LET object == check_contribution_object(case, adapt)
      range == 1..Len(adapt.items)
  IN IF Failed(object) THEN [res |-> object, contributions |-> adapt]
     ELSE IF \E k \in range : ValidateFails(adapt.items[k], xp)
     THEN [res |-> Raise("ValueError", "shape of the array and of x_preprocessed"), contributions |-> adapt]
     ELSE [res |-> Ok, contributions |-> [adapt EXCEPT !.items = [k \in range |-> ValidateOne(adapt.items[k], xp)]]]

\* a reconciliation that gives every original feature the contribution of
\* its first encoded column only
apply_preprocessing_first_encoded(contributions, pre, features) ==
  LET range == 1..Len(contributions.items) IN
  IF IsNone(pre) THEN [res |-> Ok, contributions |-> contributions]
  ELSE IF \E k \in range : InverseFails(contributions.items[k], Val(pre), features)
  THEN [res |-> Raise("KeyError", "encoded column absent from the contributions"), contributions |-> contributions]
  ELSE [res |-> Ok, contributions |-> [contributions EXCEPT !.items = [k \in range |->
          [contributions.items[k] EXCEPT !.columns = features,
             !.vals = [i \in 1..NRows(contributions.items[k]) |-> [j \in 1..Len(features) |->
                         contributions.items[k].vals[i][IndexOf(contributions.items[k].columns, Val(pre)[features[j]][1])]]]]]]]

\* apply_preprocessing_for_contributions: with a preprocessing, the state's
\* inverse_transform_contributions; without, the contributions as they are
apply_preprocessing_for_contributions(contributions, pre, features) ==
  LET range == 1..Len(contributions.items) IN
  IF IsNone(pre) THEN [res |-> Ok, contributions |-> contributions]
  ELSE IF \E k \in range : InverseFails(contributions.items[k], Val(pre), features)
  THEN [res |-> Raise("KeyError", "encoded column absent from the contributions"), contributions |-> contributions]
  ELSE [res |-> Ok, contributions |-> [contributions EXCEPT !.items = [k \in range |-> InverseOne(contributions.items[k], Val(pre), features)]]]

\* check_contributions: shape and index against self.data["x"]
check_contributions(contributions, x) ==
  IF \A k \in 1..Len(contributions.items) : CheckOne(contributions.items[k], x) THEN Ok
  ELSE Raise("ValueError", "Prediction set and contributions should have exactly the same number of lines")

\* lines 431-442 of compute_contributions, on the bundle b after predict
CCMatch(d, st, raw, invoked) ==
  LET b == Val(d)
      xp == b.x_preprocessed
      adapt == self_adapt_contributions(raw)
      st1 == Some(choose_state(adapt))
      validated == validate_contributions(adapt, xp)
      reconciled == apply_preprocessing_for_contributions(validated.contributions, preprocessing, Val(b.x).columns)
      checked == check_contributions(reconciled.contributions, Val(b.x))
  IN IF Failed(validated.res) THEN CCFail(validated.res, d, st1, invoked)
     ELSE IF Failed(reconciled.res) THEN CCFail(reconciled.res, d, st1, invoked)
     ELSE IF Failed(checked) THEN CCFail(checked, d, st1, invoked)
     ELSE IF case = "classification" /\ IsNone(xp)
     THEN CCFail(Raise("AttributeError", "predict_proba"), d, st1, invoked \cup {"model.predict_proba"})
     ELSE [res |-> Ok, data |-> d, state |-> st1,
           invoked |-> invoked \cup (IF case = "classification" THEN {"model.predict_proba"} ELSE {}),
           y_pred |-> Some(keep_right_y(case, Val(b.ypred), xp)),
           match |-> Some(keep_right_contrib(case, Val(b.ypred), reconciled.contributions, Val(b.x)))]

\* a compute_contributions that calls predict whatever the bundle holds
compute_contributions_always_predicts(d, st, contributions) ==
  IF IsNone(d)
  THEN CCFail(NoDataError, d, st, {})
  ELSE IF IsNone(Val(d).x)
  THEN CCFail(Raise("ValueError", "x must be specified in an add_input method to apply detail_contributions"), d, st, {})
  ELSE LET p == predict(d) IN
       IF Failed(p.res) THEN CCFail(p.res, p.data, st, p.invoked)
       ELSE IF ~IsNone(contributions) THEN CCMatch(p.data, st, Val(contributions), p.invoked)
       ELSE IF IsNone(Val(p.data).x_preprocessed)
       THEN CCFail(Raise("AttributeError", "shap_contributions"), p.data, st, p.invoked \cup {"explainer"})
       ELSE CCMatch(p.data, st, shap_contributions(case, Val(Val(p.data).x_preprocessed)), p.invoked \cup {"explainer"})

\* compute_contributions(contributions) on the bundle d, with self.state st
compute_contributions(d, st, contributions) ==
  IF IsNone(d)
  THEN CCFail(NoDataError, d, st, {})
  ELSE IF IsNone(Val(d).x)
  THEN CCFail(Raise("ValueError", "x must be specified in an add_input method to apply detail_contributions"), d, st, {})
  ELSE LET p == IF IsNone(Val(d).ypred) THEN predict(d) ELSE [res |-> Ok, data |-> d, invoked |-> {}] IN
       IF Failed(p.res) THEN CCFail(p.res, p.data, st, p.invoked)
       ELSE IF ~IsNone(contributions) THEN CCMatch(p.data, st, Val(contributions), p.invoked)
       ELSE IF IsNone(Val(p.data).x_preprocessed)
       THEN CCFail(Raise("AttributeError", "shap_contributions"), p.data, st, p.invoked \cup {"explainer"})
       ELSE CCMatch(p.data, st, shap_contributions(case, Val(Val(p.data).x_preprocessed)), p.invoked \cup {"explainer"})

\* lines 182-195 of add_input: the dataset x
AddX(x) ==
  IF IsNone(x)
  THEN IF IsNone(data)
       THEN [res |-> Raise("ValueError", "No dataset x specified."), data |-> data, invoked |-> {}]
       ELSE [res |-> Ok, data |-> data, invoked |-> {}]
  ELSE LET t == check_dataset_type(Val(x)) IN
       IF Failed(t.res) THEN [res |-> t.res, data |-> data, invoked |-> {}]
       ELSE LET f == check_dataset_features(t.x) IN
            IF Failed(f.res) THEN [res |-> f.res, data |-> data, invoked |-> {}]
            ELSE LET cleaned == clean_data(f.x)
                     xp == apply_preprocessing(f.x, preprocessing)
                 IN IF IsNone(xp)
                    THEN [res |-> Raise("ValueError", "Preprocessing has failed"), data |-> Some(cleaned), invoked |-> {"preprocessing"}]
                    ELSE [res |-> Ok, data |-> Some([cleaned EXCEPT !.x_preprocessed = xp]), invoked |-> {"preprocessing"}]

\* lines 197-198 of add_input: the prediction ypred
AddYpred(d, ypred) ==
  IF IsNone(ypred) THEN [res |-> Ok, data |-> d]
  ELSE LET y == check_ypred(Val(Val(d).x), Val(ypred)) IN
       IF IsNone(y) THEN [res |-> Raise("ValueError", "x and ypred should have the same index"), data |-> d]
       ELSE [res |-> Ok, data |-> Some([Val(d) EXCEPT !.ypred = y])]

\* add_input(x, ypred, contributions): the outcome, self.data and
\* self.state after it
add_input(x, ypred, contributions) ==
  LET a == AddX(x) IN
  IF Failed(a.res) THEN [res |-> a.res, data |-> a.data, state |-> state, invoked |-> a.invoked]
  ELSE LET y == AddYpred(a.data, ypred) IN
       IF Failed(y.res) THEN [res |-> y.res, data |-> y.data, state |-> state, invoked |-> a.invoked]
       ELSE LET c == compute_contributions(y.data, state, contributions) IN
            IF Failed(c.res) THEN [res |-> c.res, data |-> c.data, state |-> c.state, invoked |-> a.invoked \cup c.invoked]
            ELSE [res |-> Ok,
                  data |-> Some([Val(c.data) EXCEPT !.ypred = c.y_pred, !.contributions = c.match]),
                  state |-> c.state,
                  invoked |-> a.invoked \cup c.invoked]

\* ------------------------------------------------------------ the ranker
Min(a, b) == IF a < b THEN a ELSE b

\* the rank (1 = first) of column j of a row: columns with a larger
\* absolute contribution come first, equal ones keep their column order
RankOf(row, j) == 1 + Cardinality({k \in 1..Len(row) : Abs(row[k]) > Abs(row[j]) \/ (Abs(row[k]) = Abs(row[j]) /\ k < j)})

\* the column at each rank of a row
RankOrder(row) == [r \in 1..Len(row) |-> CHOOSE j \in 1..Len(row) : RankOf(row, j) = r]

\* shapash.decomposition.contributions.rank_contributions and
\* assign_contributions: the contributions, the values of x_df and the
\* column numbers (keys of columns_dict), each in rank order.  The values
\* are taken from x_df by column position.
rank_contributions(s_df, x_df) ==
  [index |-> s_df.index,
   contrib_sorted |-> [i \in 1..NRows(s_df) |-> [r \in 1..NCols(s_df) |-> s_df.vals[i][RankOrder(s_df.vals[i])[r]]]],
   x_sorted |-> [i \in 1..NRows(s_df) |-> [r \in 1..NCols(s_df) |-> x_df.vals[i][RankOrder(s_df.vals[i])[r]]]],
   var_dict |-> [i \in 1..NRows(s_df) |-> [r \in 1..NCols(s_df) |-> RankOrder(s_df.vals[i])[r] - 1]]]

\* ------------------------------------------------------- the mask engine
\* shapash.manipulation.mask.init_mask(contrib_sorted, True)
init_mask(contrib_sorted) == [i \in 1..Len(contrib_sorted) |-> [r \in 1..Len(contrib_sorted[i]) |-> TRUE]]

\* the check_features_name that filter calls on features_to_hide: the
\* column numbers of the named features.  SmartPredictor defines no such
\* method (see filter).
check_features_name(features) == {c \in DOMAIN columns_dict : columns_dict[c] \in SeqToSet(features)}

\* shapash.manipulation.filters.hide_contributions: features_list holds
\* column numbers
hide_contributions(var_dict, features_list) == [i \in 1..Len(var_dict) |-> [r \in 1..Len(var_dict[i]) |-> ~(var_dict[i][r] \in features_list)]]

\* shapash.manipulation.filters.cap_contributions
cap_contributions(contrib_sorted, threshold) == [i \in 1..Len(contrib_sorted) |-> [r \in 1..Len(contrib_sorted[i]) |-> Abs(contrib_sorted[i][r]) >= threshold]]

\* shapash.manipulation.filters.sign_contributions
sign_contributions(contrib_sorted, positive) == [i \in 1..Len(contrib_sorted) |-> [r \in 1..Len(contrib_sorted[i]) |-> IF positive THEN contrib_sorted[i][r] > 0 ELSE contrib_sorted[i][r] < 0]]

\* shapash.manipulation.filters.combine_masks: element-wise AND
combine_masks(masks) == [i \in 1..Len(masks[1]) |-> [r \in 1..Len(masks[1][i]) |-> \A m \in 1..Len(masks) : masks[m][i][r]]]

\* shapash.manipulation.filters.cutoff_contributions: the first k kept
\* positions of every row
cutoff_contributions(m, k) == [i \in 1..Len(m) |-> [r \in 1..Len(m[i]) |-> m[i][r] /\ Cardinality({q \in 1..r : m[i][q]}) <= k]]

\* shapash.manipulation.mask.compute_masked_contributions: per row the sum
\* of the hidden negative and of the hidden positive contributions
compute_masked_contributions(contrib_sorted, m) ==
  [i \in 1..Len(m) |->
     [masked_neg |-> SumSeq([r \in 1..Len(m[i]) |-> IF ~m[i][r] /\ contrib_sorted[i][r] < 0 THEN contrib_sorted[i][r] ELSE 0]),
      masked_pos |-> SumSeq([r \in 1..Len(m[i]) |-> IF ~m[i][r] /\ contrib_sorted[i][r] > 0 THEN contrib_sorted[i][r] ELSE 0])]]

\* the outcome of filter when it raises: self.mask and
\* self.masked_contributions are left as they were
FilterFail(res) == [res |-> res, combined |-> None, mask |-> mask, masked_contributions |-> masked_contributions]

\* a filter that does not append the sign mask
FilterMasksNoSign(sm, d) ==
  <<init_mask(sm.contrib_sorted)>>
  \o (IF IsNone(mask_params.features_to_hide) THEN <<>> ELSE <<hide_contributions(Val(d.var_dict), check_features_name(Val(mask_params.features_to_hide)))>>)
  \o (IF IsNone(mask_params.threshold) THEN <<>> ELSE <<cap_contributions(Val(d.contrib_sorted), Val(mask_params.threshold))>>)

\* a filter that tests "if positive:" where the code tests "is not None"
FilterMasksSignTruthy(sm, d) ==
  <<init_mask(sm.contrib_sorted)>>
  \o (IF IsNone(mask_params.features_to_hide) THEN <<>> ELSE <<hide_contributions(Val(d.var_dict), check_features_name(Val(mask_params.features_to_hide)))>>)
  \o (IF IsNone(mask_params.threshold) THEN <<>> ELSE <<cap_contributions(Val(d.contrib_sorted), Val(mask_params.threshold))>>)
  \o (IF IsNone(mask_params.positive) THEN <<>> ELSE IF Val(mask_params.positive) THEN <<sign_contributions(sm.contrib_sorted, TRUE)>> ELSE <<>>)

\* lines 499-520 of filter: the list of masks to combine
FilterMasks(sm, d) ==
  <<init_mask(sm.contrib_sorted)>>
  \o (IF IsNone(mask_params.features_to_hide) THEN <<>> ELSE <<hide_contributions(Val(d.var_dict), check_features_name(Val(mask_params.features_to_hide)))>>)
  \o (IF IsNone(mask_params.threshold) THEN <<>> ELSE <<cap_contributions(Val(d.contrib_sorted), Val(mask_params.threshold))>>)
  \o (IF IsNone(mask_params.positive) THEN <<>> ELSE <<sign_contributions(sm.contrib_sorted, Val(mask_params.positive))>>)

\* a filter that never applies the cutoff
CutoffSkipped(combined) == combined

\* lines 522-523 of filter: the cutoff when max_contrib is not None
Cutoff(combined) == IF IsNone(mask_params.max_contrib) THEN combined ELSE cutoff_contributions(combined, Val(mask_params.max_contrib))

\* filter() with self.summary sm (None while summarize never ranked): the
\* outcome, the combined mask of line 521, self.mask and
\* self.masked_contributions after it
filter(sm) ==
  IF IsNone(sm)
  THEN FilterFail(Raise("AttributeError", "'SmartPredictor' object has no attribute 'summary'"))
  ELSE IF (~IsNone(mask_params.features_to_hide) \/ ~IsNone(mask_params.threshold)) /\ IsNone(data)
  THEN FilterFail(Raise("AttributeError", "'SmartPredictor' object has no attribute 'data'"))
  ELSE IF ~IsNone(mask_params.features_to_hide) /\ IsNone(Val(data).var_dict)
  THEN FilterFail(Raise("KeyError", "var_dict"))
  ELSE IF ~IsNone(mask_params.features_to_hide)
  THEN FilterFail(Raise("AttributeError", "'SmartPredictor' object has no attribute 'check_features_name'"))
  ELSE IF ~IsNone(mask_params.threshold) /\ IsNone(Val(data).contrib_sorted)
  THEN FilterFail(Raise("KeyError", "contrib_sorted"))
  ELSE LET combined == combine_masks(FilterMasks(Val(sm), Val(data)))
           final == Cutoff(combined)
       IN [res |-> Ok, combined |-> Some(combined), mask |-> Some(final),
           masked_contributions |-> Some(compute_masked_contributions(Val(sm).contrib_sorted, final))]

\* ----------------------------------------------------------- summarizer
\* the number of ranks of the summary: the configured cutoff, else the
\* width of the mask
SummaryWidth(m) == IF Len(m) = 0 THEN 0 ELSE IF IsNone(mask_params.max_contrib) THEN Len(m[1]) ELSE Min(Val(mask_params.max_contrib), Len(m[1]))

\* the ranks a row keeps, in rank order
RECURSIVE KeptRanks(_, _)
KeptRanks(mrow, r) == IF r > Len(mrow) THEN <<>> ELSE (IF mrow[r] THEN <<r>> ELSE <<>>) \o KeptRanks(mrow, r + 1)

\* the domain label of a column number
FeatureLabel(c) == IF columns_dict[c] \in DOMAIN features_dict THEN features_dict[columns_dict[c]] ELSE columns_dict[c]

\* shapash.manipulation.summarize.summarize: per row the (feature, value,
\* contribution) of the kept ranks, in rank order, then nulls
summarize_table(sm, m) ==
  [index |-> sm.index,
   width |-> SummaryWidth(m),
   rows |-> [i \in 1..Len(m) |->
               LET kept == KeptRanks(m[i], 1) IN
               [q \in 1..SummaryWidth(m) |->
                  IF q <= Len(kept)
                  THEN Some([feature |-> FeatureLabel(sm.var_dict[i][kept[q]]), value |-> sm.x_sorted[i][kept[q]], contribution |-> sm.contrib_sorted[i][kept[q]]])
                  ELSE None]]]

\* a summarize that joins the summary to the stored prediction in place
StoreSummaryJoined(d, sm, table) ==
  [d EXCEPT !.summary = Some(table),
            !.ypred = Some([Val(d.ypred) EXCEPT !.columns = @ \o <<"contribution_1">>,
                                                 !.vals = [i \in 1..Len(@) |-> @[i] \o <<sm.contrib_sorted[i][1]>>]])]

\* a summarize whose ranking sorts the stored contributions in place
StoreSummarySorted(d, sm, table) ==
  [d EXCEPT !.summary = Some(table), !.contributions = Some([Val(d.contributions) EXCEPT !.vals = sm.contrib_sorted])]

\* line 569: self.data['summary'] = summarize(...)
StoreSummary(d, sm, table) == [d EXCEPT !.summary = Some(table)]

\* the outcome of summarize when it raises
SummarizeFail(res, sm, f) == [res |-> res, data |-> data, summary |-> sm, combined |-> f.combined, mask |-> f.mask, masked_contributions |-> f.masked_contributions, ret |-> None]

\* a summarize that passes the two tables to the ranker in the other order
RankBundleByValues(d) == rank_contributions(Val(d.x_preprocessed), Val(d.contributions))

\* lines 559-564 of summarize: the contributions of the bundle ranked
\* alongside its x_preprocessed
RankBundle(d) == rank_contributions(Val(d.contributions), Val(d.x_preprocessed))

\* a summarize that returns the summary without the prediction columns
ConcatSummaryNoPred(d, table) == [ypred |-> None, summary |-> table]

\* line 577: pd.concat([self.data["ypred"], self.data['summary']], axis=1)
ConcatSummary(d, table) == [ypred |-> d.ypred, summary |-> table]

\* summarize(): the outcome and self.data, self.summary, self.mask,
\* self.masked_contributions after it, and the table returned
summarize ==
  IF IsNone(data)
  THEN SummarizeFail(NoDataError, summary, FilterFail(Ok))
  ELSE IF IsNone(Val(data).contributions) \/ IsNone(Val(data).x_preprocessed)
  THEN SummarizeFail(Raise("AttributeError", "rank_contributions"), summary, FilterFail(Ok))
  ELSE LET sm == Some(RankBundle(Val(data)))
           f == filter(sm)
       IN IF Failed(f.res) THEN SummarizeFail(f.res, sm, f)
          ELSE LET table == summarize_table(Val(sm), Val(f.mask)) IN
               [res |-> Ok, data |-> Some(StoreSummary(Val(data), Val(sm), table)), summary |-> sm,
                combined |-> f.combined, mask |-> f.mask, masked_contributions |-> f.masked_contributions,
                ret |-> Some(ConcatSummary(Val(data), table))]

\* shapash.utils.check.check_mask_params, which __init__ calls on its
\* mask_params argument: the types and domains of the four entries
check_mask_params(params) ==
  IF /\ (IsNone(params.features_to_hide) \/ \A f \in SeqToSet(Val(params.features_to_hide)) : f \in DOMAIN features_types)
     /\ (IsNone(params.threshold) \/ Val(params.threshold) >= 0)
     /\ (IsNone(params.positive) \/ Val(params.positive) \in BOOLEAN)
     /\ (IsNone(params.max_contrib) \/ Val(params.max_contrib) >= 1)
  THEN Ok
  ELSE Raise("ValueError", "mask_params does not respect the expected format")

\* modify_mask: only the parameters that are not None are assigned
modify_mask(features_to_hide, threshold, positive, max_contrib) ==
  [features_to_hide |-> IF IsNone(features_to_hide) THEN mask_params.features_to_hide ELSE features_to_hide,
   threshold |-> IF IsNone(threshold) THEN mask_params.threshold ELSE threshold,
   positive |-> IF IsNone(positive) THEN mask_params.positive ELSE positive,
   max_contrib |-> IF IsNone(max_contrib) THEN mask_params.max_contrib ELSE max_contrib]

\* lines 93-97, 122 and 606-608: the default of mask_params is one dict
\* object, created when the def statement runs; __init__ binds
\* self.mask_params to it in every instance constructed without the
\* argument, and modify_mask assigns its items in place.  What one instance
\* has written is what the other reads.
SeenByPeer(written) == written

\* ------------------------------------------------------------- the state
\* the default of the constructor's mask_params argument (lines 93-97)
DefaultMaskParams == [features_to_hide |-> None, threshold |-> None, positive |-> None, max_contrib |-> None]

\* what an operation reports: its name, which arguments it was given, the
\* exception raised, the collaborators invoked, the combined mask of filter
\* (line 521) and the value returned
Outcome(op, args, res, invoked, combined, ret) == [op |-> op, args |-> args, exc |-> res.exc, msg |-> res.msg, invoked |-> invoked, combined |-> combined, ret |-> ret]

\* the arguments of the mask that modify_mask accepts
HideLists == {<<"Sex">>}

Opt(S) == {None} \cup {Some(v) : v \in S}

\* the state after __init__
Init ==
  /\ case \in {"regression", "classification"}
  /\ preprocessing \in {None, Some(OneHot)}
  /\ columns_dict = ColumnsAgeSex
  /\ mask_params = DefaultMaskParams
  /\ peer_mask_params = DefaultMaskParams
  /\ data = None
  /\ state = None
  /\ summary = None
  /\ mask = None
  /\ masked_contributions = None
  /\ last = Outcome("__init__", {}, Ok, {}, None, None)

Given(x, ypred, contributions) == (IF IsNone(x) THEN {} ELSE {"x"}) \cup (IF IsNone(ypred) THEN {} ELSE {"ypred"}) \cup (IF IsNone(contributions) THEN {} ELSE {"contributions"})

AddInput(Xs, Ys, Cs) ==
  \E x \in Opt(Xs), ypred \in Opt(Ys), contributions \in Opt(Cs) :
    LET r == add_input(x, ypred, contributions) IN
    /\ data' = r.data
    /\ state' = r.state
    /\ last' = Outcome("add_input", Given(x, ypred, contributions), r.res, r.invoked, None, None)
    /\ UNCHANGED <<case, preprocessing, columns_dict, mask_params, peer_mask_params, summary, mask, masked_contributions>>

Predict ==
  LET r == predict(data) IN
  /\ data' = r.data
  /\ last' = Outcome("predict", {}, r.res, r.invoked, None, IF Failed(r.res) THEN None ELSE Val(r.data).ypred)
  /\ UNCHANGED <<case, preprocessing, columns_dict, mask_params, peer_mask_params, state, summary, mask, masked_contributions>>

ComputeContributions(Cs) ==
  \E contributions \in Opt(Cs) :
    LET r == compute_contributions(data, state, contributions) IN
    /\ data' = r.data
    /\ state' = r.state
    /\ last' = Outcome("compute_contributions", Given(None, None, contributions), r.res, r.invoked, None,
                       IF Failed(r.res) THEN None ELSE Some(<<Val(r.y_pred), Val(r.match)>>))
    /\ UNCHANGED <<case, preprocessing, columns_dict, mask_params, peer_mask_params, summary, mask, masked_contributions>>

\* detail_contributions: compute_contributions, then the two tables joined
DetailContributions(Cs) ==
  \E contributions \in Opt(Cs) :
    LET r == compute_contributions(data, state, contributions) IN
    /\ data' = r.data
    /\ state' = r.state
    /\ last' = Outcome("detail_contributions", Given(None, None, contributions), r.res, r.invoked, None,
                       IF Failed(r.res) THEN None ELSE Some(<<Val(r.y_pred), Val(r.match)>>))
    /\ UNCHANGED <<case, preprocessing, columns_dict, mask_params, peer_mask_params, summary, mask, masked_contributions>>

Summarize ==
  LET r == summarize IN
  /\ data' = r.data
  /\ summary' = r.summary
  /\ mask' = r.mask
  /\ masked_contributions' = r.masked_contributions
  /\ last' = Outcome("summarize", {}, r.res, {}, r.combined, r.ret)
  /\ UNCHANGED <<case, preprocessing, columns_dict, mask_params, peer_mask_params, state>>

Filter ==
  LET r == filter(summary) IN
  /\ mask' = r.mask
  /\ masked_contributions' = r.masked_contributions
  /\ last' = Outcome("filter", {}, r.res, {}, r.combined, None)
  /\ UNCHANGED <<case, preprocessing, columns_dict, mask_params, peer_mask_params, data, state, summary>>

ModifyMask(Hs, Ts, Ps, Ks) ==
  \E features_to_hide \in Opt(Hs), threshold \in Opt(Ts), positive \in Opt(Ps), max_contrib \in Opt(Ks) :
    /\ mask_params' = modify_mask(features_to_hide, threshold, positive, max_contrib)
    /\ peer_mask_params' = SeenByPeer(mask_params')
    /\ last' = Outcome("modify_mask", {}, Ok, {}, None, None)
    /\ UNCHANGED <<case, preprocessing, columns_dict, data, state, summary, mask, masked_contributions>>

\* the bundle's life: every dataset, prediction and contribution input,
\* the mask parameters as constructed
Next ==
  \/ AddInput(Datasets, Ypreds, Contribs)
  \/ Predict
  \/ ComputeContributions(Contribs)
  \/ DetailContributions(Contribs)
  \/ Summarize
  \/ Filter

Spec == Init /\ [][Next]_vars

\* the mask engine: a regression model without preprocessing, one
\* dataset, every mask parameter
InitMask == Init /\ case = "regression" /\ preprocessing = None

NextMask ==
  \/ AddInput({XB}, {}, {CB})
  \/ Summarize
  \/ Filter
  \/ ModifyMask(HideLists, 1..MaxThreshold, BOOLEAN, 1..MaxContrib)

SpecMask == InitMask /\ [][NextMask]_vars

\* the sign filter, the cutoff and the summary table: both cases, no
\* preprocessing, one dataset, the mask parameters positive and max_contrib
InitSummary == Init /\ preprocessing = None

NextSummary ==
  \/ AddInput({XB}, {}, {CB})
  \/ Summarize
  \/ Filter
  \/ ModifyMask({}, {}, BOOLEAN, 1..MaxContrib)

SpecSummary == InitSummary /\ [][NextSummary]_vars

\* the ranker: a regression model without preprocessing, one dataset,
\* contributions of every sign and with ties
NextRank ==
  \/ AddInput({XB}, {}, RankContribs)
  \/ Summarize

SpecRank == InitMask /\ [][NextRank]_vars

\* the representations of contributions: both cases, no preprocessing,
\* one dataset, contributions as a table, per class and too long
NextContrib ==
  \/ AddInput({XB}, {YB}, ContribForms)
  \/ Predict
  \/ ComputeContributions(ContribForms)

SpecContrib == InitSummary /\ [][NextContrib]_vars

\* a value outside the domain of max_contrib: a negative number of
\* contributions
OutOfDomain == {-1}

\* the configuration: modify_mask given values in and out of the domain
NextConfig ==
  \/ AddInput({XB}, {}, {CB})
  \/ Summarize
  \/ ModifyMask({}, {}, BOOLEAN, OutOfDomain \cup 1..MaxContrib)

SpecConfig == InitMask /\ [][NextConfig]_vars

\* the datasets given to add_input under every columns_dict
ColumnDatasets == {XA, XB, XU}

\* the canonical column order: every columns_dict argument, datasets in
\* both column orders and with a column too many
InitColumns ==
  /\ case \in {"regression", "classification"}
  /\ preprocessing \in {None, Some(OneHot)}
  /\ columns_dict \in ColumnsDicts
  /\ mask_params = DefaultMaskParams
  /\ peer_mask_params = DefaultMaskParams
  /\ data = None
  /\ state = None
  /\ summary = None
  /\ mask = None
  /\ masked_contributions = None
  /\ last = Outcome("__init__", {}, Ok, {}, None, None)

NextColumns ==
  \/ AddInput(ColumnDatasets, Ypreds, {})
  \/ Predict

SpecColumns == InitColumns /\ [][NextColumns]_vars

\* ================================================================ claims
\* the four parts of the bundle that add_input builds
Bundle(d) == IF IsNone(d) THEN None ELSE Some(<<Val(d).x, Val(d).x_preprocessed, Val(d).ypred, Val(d).contributions>>)

Succeeded == last.exc = "None"

OrderError == last.exc = "ValueError" /\ last.msg = MsgOrder

\* C1: while self.data does not exist (as on a freshly constructed
\* SmartPredictor), predict, compute_contributions, detail_contributions
\* and summarize each fail with the order error and create no data bundle.
C1_OrderErrorBeforeAddInput ==
  [][(data = None /\ last'.op \in {"predict", "compute_contributions", "detail_contributions", "summarize"})
       => (last'.exc = "ValueError" /\ last'.msg = MsgOrder /\ data' = None)]_vars

C1_Witness == last.op = "detail_contributions" /\ OrderError /\ data = None /\ summary = None /\ state = None

\* C2 (as claimed): filter called while self.data does not exist fails
\* with the same order error as the other operations.
C2_FilterOrderError ==
  [][(data = None /\ last'.op = "filter") => (last'.exc = "ValueError" /\ last'.msg = MsgOrder)]_vars

\* C3: after a successful add_input with a dataset x, every part of the
\* bundle belongs to that x: x_preprocessed, ypred and contributions are
\* present, were computed from or checked against the stored x and have
\* its row keys, and no summary of a former dataset is left in the bundle.
C3_NewInputReset ==
  (last.op = "add_input" /\ "x" \in last.args /\ Succeeded) =>
    LET b == Val(data)
        x == Val(b.x)
    IN /\ ~IsNone(b.x_preprocessed) /\ ~IsNone(b.ypred) /\ ~IsNone(b.contributions)
       /\ Val(b.x_preprocessed).of = x.name /\ Val(b.x_preprocessed).index = x.index
       /\ Val(b.ypred).of = x.name /\ Val(b.ypred).index = x.index
       /\ Val(b.contributions).of = x.name /\ Val(b.contributions).index = x.index
       /\ IsNone(b.summary)

\* XA has just been added, after a two-row dataset with the user's
\* contributions CB had been added and summarized
C3_Witness ==
  /\ last.op = "add_input" /\ "x" \in last.args /\ Succeeded
  /\ Val(Val(data).x).name = "XA"
  /\ ~IsNone(summary) /\ Val(summary).index = <<0, 1>> /\ Val(summary).contrib_sorted = <<<<-2, 1>>, <<2, 0>>>>

\* C4 (as claimed): an add_input with a new x that fails leaves the data
\* bundle exactly as it was before the call.
C4_FailedAddInputCommitsNothing ==
  [][(last'.op = "add_input" /\ "x" \in last'.args /\ last'.exc # "None") => data' = data]_vars

\* C5 (as claimed): once contributions supplied by the user are stored, a
\* successful add_input that supplies neither x nor contributions keeps
\* them and does not ask the explainer.
C5_UserContributionsPersist ==
  [][(/\ ~IsNone(data) /\ ~IsNone(Val(data).contributions) /\ Val(Val(data).contributions).by = "user"
      /\ last'.op = "add_input" /\ last'.args \cap {"x", "contributions"} = {} /\ last'.exc = "None")
       => (Val(Val(data').contributions).by = "user" /\ ~("explainer" \in last'.invoked))]_vars

\* C6 (as claimed): no bundle is created from an x in which the runtime
\* type of a column differs from the type features_types declares.
C6_FeatureTypesEnforced ==
  ~IsNone(data) => \A column \in SeqToSet(Val(Val(data).x).columns) : Val(Val(data).x).dtypes[column] = features_types[column]

\* C7: summarize, filter and modify_mask leave x, x_preprocessed, ypred and
\* contributions of the bundle unchanged and invoke neither the model nor
\* the explainer.
C7_SummaryLeavesBundle ==
  [][(last'.op \in {"summarize", "filter", "modify_mask"}) => (Bundle(data') = Bundle(data) /\ last'.invoked = {})]_vars

\* a summarize that returned a table under a changed mask
C7_Witness ==
  /\ last.op = "summarize" /\ Succeeded /\ ~IsNone(last.ret)
  /\ mask_params.positive = Some(FALSE) /\ mask_params.max_contrib = Some(1)
  /\ Val(Val(data).contributions).by = "user"

\* C8: a summarize that directly follows a summarize has the same outcome,
\* returns the same table and leaves the same mask.
C8_SummarizeIdempotent ==
  [][(last.op = "summarize" /\ last'.op = "summarize")
       => (last'.exc = last.exc /\ last'.msg = last.msg /\ last'.ret = last.ret /\ mask' = mask /\ data' = data /\ summary' = summary)]_vars

\* a summarize that returned a table in which some row lost a rank
C8_Witness ==
  /\ last.op = "summarize" /\ Succeeded /\ ~IsNone(last.ret)
  /\ \E i \in 1..Len(Val(mask)) : \E r \in 1..Len(Val(mask)[i]) : ~Val(mask)[i][r]
  /\ Val(last.ret).summary = Val(Val(data).summary)

\* what the filters of mask_params that are not None keep at (row, rank)
KeptByHide(sm, i, r) == IsNone(mask_params.features_to_hide) \/ ~(columns_dict[sm.var_dict[i][r]] \in SeqToSet(Val(mask_params.features_to_hide)))

KeptByThreshold(sm, i, r) == IsNone(mask_params.threshold) \/ Abs(sm.contrib_sorted[i][r]) >= Val(mask_params.threshold)

KeptBySign(sm, i, r) == IsNone(mask_params.positive) \/ (IF Val(mask_params.positive) THEN sm.contrib_sorted[i][r] > 0 ELSE sm.contrib_sorted[i][r] < 0)

C10_ThresholdKeepsBoundary ==
  (/\ last.op = "summarize" /\ ~IsNone(data) /\ ~IsNone(Val(data).contributions)
   /\ ~IsNone(mask_params.threshold) /\ IsNone(mask_params.features_to_hide)
   /\ IsNone(mask_params.positive) /\ IsNone(mask_params.max_contrib))
    => /\ Succeeded
       /\ mask = Some(cap_contributions(Val(summary).contrib_sorted, Val(mask_params.threshold)))

\* C11 (as claimed): with features_to_hide and no other filter, summarize
\* on a complete bundle succeeds and the mask is False exactly at the
\* (row, rank) positions whose feature is in features_to_hide.
C11_HideByName ==
  (/\ last.op = "summarize" /\ ~IsNone(data) /\ ~IsNone(Val(data).contributions)
   /\ ~IsNone(mask_params.features_to_hide) /\ IsNone(mask_params.threshold)
   /\ IsNone(mask_params.positive) /\ IsNone(mask_params.max_contrib))
    => /\ Succeeded
       /\ \A i \in 1..Len(Val(mask)) : \A r \in 1..Len(Val(mask)[i]) : Val(mask)[i][r] <=> KeptByHide(Val(summary), i, r)

\* the number of positions a mask row keeps
NKept(mrow) == Cardinality({r \in 1..Len(mrow) : mrow[r]})

OnlySignAndCutoff == IsNone(mask_params.features_to_hide) /\ IsNone(mask_params.threshold)

C13_Cutoff ==
  (last.op \in {"summarize", "filter"} /\ Succeeded /\ ~IsNone(mask_params.max_contrib)) =>
    LET k == Val(mask_params.max_contrib)
        combined == Val(last.combined)
        m == Val(mask)
    IN /\ Len(m) = Len(combined)
       /\ \A i \in 1..Len(m) :
            /\ Len(m[i]) = Len(combined[i])
            /\ NKept(m[i]) = Min(k, NKept(combined[i]))
            /\ \A r \in 1..Len(m[i]) : m[i][r] => combined[i][r]
            /\ \A r, q \in 1..Len(m[i]) : (r < q /\ combined[i][r] /\ m[i][q]) => m[i][r]
            /\ (NKept(combined[i]) <= k) => (m[i] = combined[i])
       /\ cutoff_contributions(m, k) = m

\* under max_contrib = 1 a row lost its second kept position and another
\* row, which kept one position only, is unchanged
C13_Witness ==
  /\ last.op = "summarize" /\ Succeeded /\ mask_params.max_contrib = Some(1)
  /\ \E i, j \in 1..Len(Val(mask)) :
       /\ NKept(Val(last.combined)[i]) = 2 /\ Val(mask)[i] = <<TRUE, FALSE>>
       /\ NKept(Val(last.combined)[j]) = 1 /\ Val(mask)[j] = Val(last.combined)[j]

\* C14: after a summarize that succeeded, every row of the ranked
\* contributions is a permutation of the row of the bundle's contributions
\* in descending order of absolute value, and positions with equal
\* absolute value are in their original column order; contributions
\* [5, -8, 5, 1] over [A, B, C, D] rank as [B, A, C, D].
C14_RankStable ==
  /\ RankOrder(<<5, -8, 5, 1>>) = <<2, 1, 3, 4>>
  /\ (last.op = "summarize" /\ Succeeded) =>
       LET sm == Val(summary)
           c == Val(Val(data).contributions)
       IN /\ Len(sm.contrib_sorted) = NRows(c)
          /\ \A i \in 1..NRows(c) :
               /\ Len(sm.contrib_sorted[i]) = NCols(c)
               /\ {sm.var_dict[i][r] + 1 : r \in 1..NCols(c)} = 1..NCols(c)
               /\ \A r \in 1..NCols(c) : sm.contrib_sorted[i][r] = c.vals[i][sm.var_dict[i][r] + 1]
               /\ \A r, q \in 1..NCols(c) : r < q =>
                    \/ Abs(sm.contrib_sorted[i][r]) > Abs(sm.contrib_sorted[i][q])
                    \/ (Abs(sm.contrib_sorted[i][r]) = Abs(sm.contrib_sorted[i][q]) /\ sm.var_dict[i][r] < sm.var_dict[i][q])

\* summarize ranked a row with a tie of opposite signs in column order and
\* a row of another bundle's summary had moved its second column first
C14_Witness ==
  /\ last.op = "summarize" /\ Succeeded
  /\ Val(Val(data).contributions).vals[1] = <<-1, 1>>
  /\ Val(summary).contrib_sorted[1] = <<-1, 1>> /\ Val(summary).var_dict[1] = <<0, 1>>
  /\ Val(summary).contrib_sorted[2] = <<1, -1>> /\ Val(summary).var_dict[2] = <<0, 1>>

\* the per-class form of a single table C: [-C, C]
PairOf(contributions) == Contrib("list", <<Neg(contributions.items[1]), contributions.items[1]>>)

\* C15: in classification, in every reachable state, compute_contributions
\* and add_input given the single table CB have the same outcome, the same
\* matched contributions and predictions and leave the same bundle as
\* given the pair [-CB, CB].
C15_SingleEqualsPair ==
  (case = "classification") =>
    /\ compute_contributions(data, state, Some(CB)) = compute_contributions(data, state, Some(PairOf(CB)))
    /\ \A x \in Opt(Datasets), ypred \in Opt(Ypreds) : add_input(x, ypred, Some(CB)) = add_input(x, ypred, Some(PairOf(CB)))

\* compute_contributions was given the single table CB (the only
\* contributions of this specification) in classification and returned
\* what the pair gives; a row of class 0 took the opposite contributions
C15_Witness ==
  /\ case = "classification" /\ last.op = "compute_contributions" /\ "contributions" \in last.args /\ Succeeded
  /\ LET r == compute_contributions(data, state, Some(CL)) IN last.ret = Some(<<Val(r.y_pred), Val(r.match)>>)
  /\ Val(last.ret)[2].vals[1] = <<-1, 2>>
  /\ state = Some("MultiDecorator")

\* the contributions whose representation does not fit the case
BadForms == IF case = "classification" THEN {c \in ContribForms : c.kind = "list" /\ Len(c.items) # Len(Classes)} ELSE {c \in ContribForms : c.kind = "list"}

ObjectError(res) == res.exc = "ValueError" /\ res.msg \in {"length of list of contributions must be equal to the number of classes", "contributions object must be a table in regression"}

\* C16: in every reachable state with a bundle, compute_contributions
\* given a sequence of the wrong length (classification) or any sequence
\* (regression) fails with the error of the representation check and
\* changes no contributions of the bundle; add_input given it fails too and
\* stores no contributions.
C16_RepresentationChecked ==
  (~IsNone(data) /\ ~IsNone(Val(data).x_preprocessed)) =>
    \A c \in BadForms :
      /\ LET r == compute_contributions(data, state, Some(c)) IN
           ObjectError(r.res) /\ IsNone(r.match) /\ Val(r.data).contributions = Val(data).contributions
      /\ \A x \in Opt({XB}), ypred \in Opt({YB}) :
           LET a == add_input(x, ypred, Some(c)) IN
             /\ Failed(a.res)
             /\ Val(a.data).contributions = (IF IsNone(x) THEN Val(data).contributions ELSE None)

\* compute_contributions was given three tables for two classes and failed
\* while the bundle kept the contributions stored before
C16_Witness ==
  /\ case = "classification" /\ last.op = "compute_contributions" /\ "contributions" \in last.args
  /\ last.exc = "ValueError" /\ last.msg = "length of list of contributions must be equal to the number of classes"
  /\ ~IsNone(Val(data).contributions) /\ Val(Val(data).contributions).by = "user"

\* the encoded columns of an original feature (the feature itself without
\* preprocessing)
EncodedOf(feature) == IF IsNone(preprocessing) THEN <<feature>> ELSE Val(preprocessing)[feature]

\* the table the stored contributions were reconciled from: the
\* explainer's table for x_preprocessed, or the user's table
RawContributions(b) == IF Val(b.contributions).by = "explainer" THEN ShapTable(Val(b.x_preprocessed)) ELSE TB

\* in classification a row of class 0 takes the opposite table
RowSign(b, i) == IF case = "classification" /\ Val(b.ypred).vals[i][1] = Classes[1] THEN -1 ELSE 1

\* C17: after an add_input that succeeded, for every row and every original
\* feature the stored contribution is the sum of the contributions of the
\* encoded columns of that feature (taken from the table of the row's
\* class); without preprocessing it is the input contribution itself.
C17_ReconciledIsSum ==
  (last.op = "add_input" /\ Succeeded) =>
    LET b == Val(data)
        features == Val(b.x).columns
        raw == RawContributions(b)
        stored == Val(b.contributions)
    IN /\ stored.columns = features
       /\ \A i \in 1..NRows(stored) : \A j \in 1..Len(features) :
            LET enc == EncodedOf(features[j]) IN
            /\ \A k \in 1..Len(enc) : IndexOf(raw.columns, enc[k]) > 0
            /\ stored.vals[i][j] = RowSign(b, i) * SumSeq([k \in 1..Len(enc) |-> raw.vals[i][IndexOf(raw.columns, enc[k])]])
       /\ IsNone(preprocessing) => \A i \in 1..NRows(stored) : \A j \in 1..Len(features) : stored.vals[i][j] = RowSign(b, i) * raw.vals[i][j]

\* add_input succeeded under the one-hot preprocessing: Sex has the sum of
\* Sex_0 (0) and Sex_1 (-1) in a regression
C17_Witness ==
  /\ last.op = "add_input" /\ Succeeded /\ preprocessing = Some(OneHot) /\ case = "regression"
  /\ Val(Val(data).x_preprocessed).columns = <<"Age", "Sex_0", "Sex_1">>
  /\ Val(Val(data).x).vals[1] = <<4, 0>>
  /\ ShapTable(Val(Val(data).x_preprocessed)).vals[1] = <<3, 0, -1>>
  /\ Val(Val(data).contributions).vals[1] = <<3, -1>>

\* the q-th position, in rank order, that a mask row keeps
KeptRank(mrow, q) == CHOOSE r \in 1..Len(mrow) : mrow[r] /\ Cardinality({p \in 1..r : mrow[p]}) = q

MsgNoPreprocessed == "x must be specified in an add_input method to apply predict"

\* C19: compute_contributions (and detail_contributions) on a bundle that
\* holds a prediction does not call the model's predict and leaves the
\* prediction as it is; on a bundle without prediction it calls predict,
\* which stores the model's prediction of x_preprocessed before the
\* contributions are matched, or fails when the bundle has no preprocessed
\* data; predict itself fails on a bundle without preprocessed data.
C19_PredictIffNoPrediction ==
  [][/\ (last'.op \in {"compute_contributions", "detail_contributions"} /\ ~IsNone(data)) =>
          IF ~IsNone(Val(data).ypred)
          THEN ~("model.predict" \in last'.invoked) /\ Val(data').ypred = Val(data).ypred
          ELSE IF ~IsNone(Val(data).x_preprocessed)
          THEN "model.predict" \in last'.invoked /\ Val(data').ypred = Some(ModelPredict(case, Val(Val(data).x_preprocessed)))
          ELSE last'.exc = "ValueError" /\ last'.msg = MsgNoPreprocessed /\ ~("model.predict" \in last'.invoked) /\ data' = data
     /\ (last'.op = "predict" /\ ~IsNone(data) /\ IsNone(Val(data).x_preprocessed)) =>
          (last'.exc = "ValueError" /\ last'.msg = MsgNoPreprocessed /\ data' = data)]_vars

\* compute_contributions called predict, the prediction of the model is
\* stored, and the matching of the contributions failed after it
C19_Witness ==
  /\ last.op = "compute_contributions" /\ "model.predict" \in last.invoked /\ ~Succeeded
  /\ ~IsNone(data) /\ ~IsNone(Val(data).ypred) /\ Val(Val(data).ypred).by = "model"
  /\ IsNone(Val(data).contributions)

\* C20 (as claimed): after a summarize that succeeded, the table whose
\* values were ranked alongside the contributions has the columns and the
\* rows of the stored contributions, and the value ranked with a
\* contribution is the value of its feature in x.
C20_ValuesInFeatureSpace ==
  (last.op = "summarize" /\ Succeeded) =>
    LET b == Val(data)
        c == Val(b.contributions)
        x == Val(b.x)
        sm == Val(summary)
    IN /\ Val(b.x_preprocessed).columns = c.columns
       /\ Val(b.x_preprocessed).index = c.index
       /\ c.columns = x.columns
       /\ \A i \in 1..NRows(c) : \A r \in 1..NCols(c) : sm.x_sorted[i][r] = x.vals[i][sm.var_dict[i][r] + 1]

\* the names of columns_dict in ascending order of its keys
KeysAscending == [i \in 1..Cardinality(DOMAIN columns_dict) |-> columns_dict[CHOOSE k \in DOMAIN columns_dict : Cardinality({m \in DOMAIN columns_dict : m < k}) = i - 1]]

KeysContiguous == \A k, m \in DOMAIN columns_dict : \A o \in k..m : o \in DOMAIN columns_dict

HasUnknownColumn(x) == \E column \in SeqToSet(x.columns) : \A k \in DOMAIN columns_dict : columns_dict[k] # column

\* C21: after an add_input that succeeded, the stored x has the columns of
\* columns_dict in ascending order of its keys, each with the values the
\* supplied dataset has under that name; in every reachable state an
\* add_input of a dataset with a column columns_dict does not name, or
\* under a columns_dict whose keys are not contiguous, fails and leaves the
\* bundle as it is.
C21_CanonicalColumns ==
  /\ (last.op = "add_input" /\ Succeeded) =>
       LET x == Val(Val(data).x)
           given == CHOOSE d \in ColumnDatasets : d.name = x.name
       IN /\ x.columns = KeysAscending
          /\ \A i \in 1..Len(x.vals) : \A j \in 1..Len(x.columns) : x.vals[i][j] = given.vals[i][IndexOf(given.columns, x.columns[j])]
  /\ \A x \in ColumnDatasets :
       (HasUnknownColumn(x) \/ ~KeysContiguous) =>
         LET a == add_input(Some(x), None, None) IN Failed(a.res) /\ a.data = data

\* under the columns_dict {1: Sex, 2: Age} the dataset XA, supplied as
\* [Age, Sex], is stored as [Sex, Age]
C21_Witness ==
  /\ last.op = "add_input" /\ Succeeded /\ columns_dict = ColumnsFromOne
  /\ Val(Val(data).x).name = "XA"
  /\ Val(Val(data).x).columns = <<"Sex", "Age">>
  /\ Val(Val(data).x).vals[1] = <<0, 4>>

\* C22 (as claimed): mask_params passes check_mask_params in every
\* reachable state, a modify_mask given a value outside its domain being
\* rejected.
C22_MaskParamsValid == check_mask_params(mask_params) = Ok

\* C23 (as claimed): a modify_mask on this SmartPredictor leaves the
\* mask_params of a second SmartPredictor, constructed without the
\* mask_params argument as well, unchanged.
C23_InstancesIndependent == [][(last'.op = "modify_mask") => (peer_mask_params' = peer_mask_params)]_vars

\* C24 (as claimed): in every reachable state with a data bundle, x,
\* x_preprocessed, ypred and contributions are all present and ypred and
\* contributions have the row keys of x.
C24_BundleComplete ==
  ~IsNone(data) =>
    LET b == Val(data) IN
    /\ ~IsNone(b.x) /\ ~IsNone(b.x_preprocessed) /\ ~IsNone(b.ypred) /\ ~IsNone(b.contributions)
    /\ Val(b.ypred).index = Val(b.x).index
    /\ Val(b.contributions).index = Val(b.x).index

====
